---- MODULE Spec2Model ----
(***************************************************************************)
(* Model of panda/src/pipeline/threadWin32Impl.cxx: the Win32 thread       *)
(* lifecycle object (start, join, setup_main_thread), the native entry     *)
(* point root_func, and the current-thread registry (get_current_thread,   *)
(* init_current_thread, bind_thread).                                      *)
(*                                                                         *)
(* One lifecycle object (ThreadWin32Impl) with its parent Thread object is *)
(* modelled.  It is used by NumCallers native caller contexts, each of     *)
(* which holds one reference on the parent object, and by the worker, the  *)
(* native thread that CreateThread spawns on root_func.                    *)
(***************************************************************************)
EXTENDS Integers, FiniteSets, Sequences, TLC

\* ---------------------------------------------------------------- bounds
NumCallers == 2

\* ------------------------------------------------------------ identities
Worker == 0
Callers == 1..NumCallers
Natives == Callers \cup {Worker}
NoOwner == -1

\* Thread objects: the designated main thread and the modelled parent object.
MainThread == "main_thread"
ParentObj == "parent_obj"
Null == "nullptr"
Threads == {MainThread, ParentObj}

\* enum Status of ThreadWin32Impl
S_new == "S_new"
S_start_called == "S_start_called"
S_running == "S_running"
S_finished == "S_finished"

\* enum ThreadPriority
TP_low == "TP_low"
TP_normal == "TP_normal"
TP_high == "TP_high"
TP_urgent == "TP_urgent"
ThreadPriority == {TP_low, TP_normal, TP_high, TP_urgent}

VARIABLES
  status,             \* _status
  joinable,           \* _joinable
  thread,             \* _thread, the OS handle (0: none)
  thread_id,          \* _thread_id (0: none)
  mutex,              \* owner of _mutex, NoOwner when free
  waiting,            \* contexts sleeping in _cv.wait()
  ref_count,          \* reference count of _parent_obj
  holds,              \* holds[c]: caller c still owns its reference
  deleted,            \* number of times _parent_obj was deleted
  pc,                 \* position of each caller context
  arg,                \* arguments of the start() call in progress
  ret,                \* the last call that returned: its context and value
  wpc,                \* position of the worker in root_func
  created,            \* number of OS threads CreateThread has created
  main_calls,         \* number of thread_main() invocations
  current,            \* _current_thread of each native thread (thread_local)
  main_thread_known   \* _main_thread_known

lifecycle == <<status, joinable, thread, thread_id>>
sync == <<mutex, waiting>>
refs == <<ref_count, holds, deleted>>
calls == <<pc, arg>>
work == <<wpc, created, main_calls>>
registry == <<current, main_thread_known>>
vars == <<status, joinable, thread, thread_id, mutex, waiting,
          ref_count, holds, deleted, pc, arg, ret, wpc, created, main_calls,
          current, main_thread_known>>

NoArg == [priority |-> TP_normal, joinable |-> FALSE]
NoRet == [who |-> NoOwner, val |-> "none"]
Returns(n, v) == [who |-> n, val |-> v]

\* --------------------------------------------------------------- helpers

\* ReferenceCount::ref()
Ref(n) == n + 1

\* unref_delete(ptr): the count after the decrement
Unref(n) == n - 1

\* unref_delete(ptr): the object is deleted when the count reaches zero
DeletedBy(n) == IF Unref(n) = 0 THEN 1 ELSE 0

\* ConditionVarWin32Impl::notify(): wakes one of the sleeping contexts, if any
Notify(w) == IF w = {} THEN {{}} ELSE {w \ {c} : c \in w}

\* start() that only looks at the handle
StartPrecondition_HandleOnly == thread = 0

\* start() whose precondition is never checked
StartPrecondition_Unchecked == TRUE

\* the condition of the nassertd of start()
StartPrecondition == status = S_new /\ thread = 0

\* join() that also wants an OS handle
JoinPrecondition_NeedsHandle == joinable /\ status # S_new /\ thread # 0

\* join() that does not look at the joinable flag
JoinPrecondition_StateOnly == status # S_new

\* the condition of the nassertd of join()
JoinPrecondition == joinable /\ status # S_new

\* join() that waits for as long as the handle is open
JoinMustWait_WhileHandleOpen == thread # 0

\* join() that stops waiting as soon as the thread runs
JoinMustWait_UntilRunning == status # S_finished /\ status # S_running

\* the condition of the while loop of join()
JoinMustWait == status # S_finished

\* ------------------------------------------------------------------ Init

\* static initialisers of the registry
InitRegistry ==
  /\ current = [n \in Natives |-> Null]
  /\ main_thread_known = FALSE

\* the lifecycle object after construction
InitLifecycle ==
  /\ status = S_new
  /\ joinable = FALSE
  /\ thread = 0
  /\ thread_id = 0
  /\ mutex = NoOwner
  /\ waiting = {}

Init ==
  /\ InitRegistry
  /\ InitLifecycle
  /\ ref_count = NumCallers
  /\ holds = [c \in Callers |-> TRUE]
  /\ deleted = 0
  /\ pc = [c \in Callers |-> "idle"]
  /\ arg = [c \in Callers |-> NoArg]
  /\ ret = NoRet
  /\ wpc = "none"
  /\ created = 0
  /\ main_calls = 0

\* ---------------------------------------------------------------- start()

\* _mutex.lock() of start(priority, joinable)
StartLock(c, p, j) ==
  /\ pc[c] = "idle" /\ holds[c]
  /\ mutex = NoOwner
  /\ mutex' = c
  /\ pc' = [pc EXCEPT ![c] = "s_check"]
  /\ arg' = [arg EXCEPT ![c] = [priority |-> p, joinable |-> j]]
  /\ UNCHANGED <<lifecycle, waiting, refs, ret, work, registry>>

\* nassertd(_status == S_new && _thread == 0) and the two assignments after it
StartCheck(c) ==
  /\ pc[c] = "s_check"
  /\ IF StartPrecondition
       THEN /\ joinable' = arg[c].joinable
            /\ status' = S_start_called
            /\ pc' = [pc EXCEPT ![c] = "s_create"]
            /\ UNCHANGED <<mutex, arg, ret>>
       ELSE /\ mutex' = NoOwner
            /\ pc' = [pc EXCEPT ![c] = "idle"]
            /\ arg' = [arg EXCEPT ![c] = NoArg]
            /\ ret' = Returns(c, "false")
            /\ UNCHANGED <<joinable, status>>
  /\ UNCHANGED <<thread, thread_id, waiting, refs, work, registry>>

\* _parent_obj->ref() and CreateThread(); ok: whether the OS creates the thread
StartCreate(c, ok) ==
  /\ pc[c] = "s_create"
  /\ ref_count' = Ref(ref_count)
  /\ IF ok
       THEN /\ thread' = 1
            /\ thread_id' = 1
            /\ wpc' = "w_bind"
            /\ created' = created + 1
       ELSE /\ thread' = 0
            /\ UNCHANGED <<thread_id, wpc, created>>
  /\ pc' = [pc EXCEPT ![c] = "s_created"]
  /\ UNCHANGED <<status, joinable, sync, holds, deleted, arg, ret,
                 main_calls, registry>>

\* start() that returns true without _mutex.unlock()
StartFinish_KeepsMutex(c) ==
  /\ pc[c] = "s_created"
  /\ IF thread_id = 0
       THEN /\ ref_count' = Unref(ref_count)
            /\ deleted' = deleted + DeletedBy(ref_count)
            /\ ret' = Returns(c, "false")
            /\ mutex' = NoOwner
       ELSE /\ ret' = Returns(c, "true")
            /\ UNCHANGED <<ref_count, deleted, mutex>>
  /\ pc' = [pc EXCEPT ![c] = "idle"]
  /\ arg' = [arg EXCEPT ![c] = NoArg]
  /\ UNCHANGED <<status, joinable, thread, thread_id, waiting, holds, work,
                 registry>>

\* start() that forgets the unref_delete of the failure path
StartFinish_NoUnref(c) ==
  /\ pc[c] = "s_created"
  /\ IF thread_id = 0
       THEN /\ ret' = Returns(c, "false")
       ELSE /\ ret' = Returns(c, "true")
  /\ mutex' = NoOwner
  /\ pc' = [pc EXCEPT ![c] = "idle"]
  /\ arg' = [arg EXCEPT ![c] = NoArg]
  /\ UNCHANGED <<status, joinable, thread, thread_id, waiting, refs, work,
                 registry>>

\* if (_thread_id == 0) { unref_delete; unlock; return false }
\* otherwise SetThreadPriority (a hint to the OS for any arg[c].priority, it
\* changes nothing of the object), unlock, return true
StartFinish(c) ==
  /\ pc[c] = "s_created"
  /\ IF thread_id = 0
       THEN /\ ref_count' = Unref(ref_count)
            /\ deleted' = deleted + DeletedBy(ref_count)
            /\ ret' = Returns(c, "false")
       ELSE /\ ret' = Returns(c, "true")
            /\ UNCHANGED <<ref_count, deleted>>
  /\ mutex' = NoOwner
  /\ pc' = [pc EXCEPT ![c] = "idle"]
  /\ arg' = [arg EXCEPT ![c] = NoArg]
  /\ UNCHANGED <<status, joinable, thread, thread_id, waiting, holds, work,
                 registry>>

\* ----------------------------------------------------------------- join()

\* _mutex.lock() of join()
JoinLock(c) ==
  /\ pc[c] = "idle" /\ holds[c]
  /\ mutex = NoOwner
  /\ mutex' = c
  /\ pc' = [pc EXCEPT ![c] = "j_check"]
  /\ UNCHANGED <<lifecycle, waiting, refs, arg, ret, work, registry>>

\* join() whose early return forgets _mutex.unlock()
JoinCheck_KeepsMutex(c) ==
  /\ pc[c] = "j_check"
  /\ IF JoinPrecondition
       THEN /\ pc' = [pc EXCEPT ![c] = "j_loop"]
            /\ UNCHANGED ret
       ELSE /\ pc' = [pc EXCEPT ![c] = "idle"]
            /\ ret' = Returns(c, "join_refused")
  /\ UNCHANGED <<lifecycle, sync, refs, arg, work, registry>>

\* nassertd(_joinable && _status != S_new)
JoinCheck(c) ==
  /\ pc[c] = "j_check"
  /\ IF JoinPrecondition
       THEN /\ pc' = [pc EXCEPT ![c] = "j_loop"]
            /\ UNCHANGED <<mutex, ret>>
       ELSE /\ mutex' = NoOwner
            /\ pc' = [pc EXCEPT ![c] = "idle"]
            /\ ret' = Returns(c, "join_refused")
  /\ UNCHANGED <<lifecycle, waiting, refs, arg, work, registry>>

\* while (_status != S_finished) { _cv.wait(); }  _mutex.unlock();
JoinLoop(c) ==
  /\ pc[c] = "j_loop"
  /\ IF JoinMustWait
       THEN /\ waiting' = waiting \cup {c}
            /\ pc' = [pc EXCEPT ![c] = "j_wait"]
            /\ UNCHANGED ret
       ELSE /\ pc' = [pc EXCEPT ![c] = "idle"]
            /\ ret' = Returns(c, "joined")
            /\ UNCHANGED waiting
  /\ mutex' = NoOwner
  /\ UNCHANGED <<lifecycle, refs, arg, work, registry>>

\* _cv.wait() returning: the woken context takes the mutex again
JoinWake(c) ==
  /\ pc[c] = "j_wait"
  /\ c \notin waiting
  /\ mutex = NoOwner
  /\ mutex' = c
  /\ pc' = [pc EXCEPT ![c] = "j_loop"]
  /\ UNCHANGED <<lifecycle, waiting, refs, arg, ret, work, registry>>

\* a spurious wake-up of _cv.wait()
SpuriousWake(c) ==
  /\ c \in waiting
  /\ waiting' = waiting \ {c}
  /\ UNCHANGED <<lifecycle, mutex, refs, calls, ret, work, registry>>

\* a caller context drops its reference on the parent object
DropRef(c) ==
  /\ pc[c] = "idle" /\ holds[c]
  /\ holds' = [holds EXCEPT ![c] = FALSE]
  /\ ref_count' = Unref(ref_count)
  /\ deleted' = deleted + DeletedBy(ref_count)
  /\ UNCHANGED <<lifecycle, sync, calls, ret, work, registry>>

\* ------------------------------------------------------------ root_func()

\* root_func() that does not bind the slot of the new native thread
RootBind_NoBind ==
  /\ wpc = "w_bind"
  /\ wpc' = "w_lock1"
  /\ UNCHANGED <<lifecycle, sync, refs, calls, ret, created, main_calls,
                 registry>>

\* _current_thread = self->_parent_obj
RootBind ==
  /\ wpc = "w_bind"
  /\ current' = [current EXCEPT ![Worker] = ParentObj]
  /\ wpc' = "w_lock1"
  /\ UNCHANGED <<lifecycle, sync, refs, calls, ret, created, main_calls,
                 main_thread_known>>

\* root_func() whose first lock does not wait for the mutex
RootLock1_Unguarded ==
  /\ wpc = "w_lock1"
  /\ mutex' = Worker
  /\ wpc' = "w_running"
  /\ UNCHANGED <<lifecycle, waiting, refs, calls, ret, created, main_calls,
                 registry>>

\* self->_mutex.lock(), first critical section
RootLock1 ==
  /\ wpc = "w_lock1"
  /\ mutex = NoOwner
  /\ mutex' = Worker
  /\ wpc' = "w_running"
  /\ UNCHANGED <<lifecycle, waiting, refs, calls, ret, created, main_calls,
                 registry>>

\* nassertd(_status == S_start_called); _status = S_running; notify; unlock
RootRunning ==
  /\ wpc = "w_running"
  /\ IF status = S_start_called
       THEN /\ status' = S_running
            /\ waiting' \in Notify(waiting)
            /\ wpc' = "w_main"
       ELSE /\ wpc' = "returned_1"
            /\ UNCHANGED <<status, waiting>>
  /\ mutex' = NoOwner
  /\ UNCHANGED <<joinable, thread, thread_id, refs, calls, ret,
                 created, main_calls, registry>>

\* self->_parent_obj->thread_main() is entered
ThreadMainBegin ==
  /\ wpc = "w_main"
  /\ main_calls' = main_calls + 1
  /\ wpc' = "w_user"
  /\ UNCHANGED <<lifecycle, sync, refs, calls, ret, created, registry>>

\* root_func() that drops the reference right after thread_main()
ThreadMainReturn_UnrefFirst ==
  /\ wpc = "w_user"
  /\ wpc' = "w_unref"
  /\ UNCHANGED <<lifecycle, sync, refs, calls, ret, created, main_calls,
                 registry>>

\* thread_main() returns
ThreadMainReturn ==
  /\ wpc = "w_user"
  /\ wpc' = "w_lock2"
  /\ UNCHANGED <<lifecycle, sync, refs, calls, ret, created, main_calls,
                 registry>>

\* self->_mutex.lock(), second critical section
RootLock2 ==
  /\ wpc = "w_lock2"
  /\ mutex = NoOwner
  /\ mutex' = Worker
  /\ wpc' = "w_finishing"
  /\ UNCHANGED <<lifecycle, waiting, refs, calls, ret, created, main_calls,
                 registry>>

\* nassertd(_status == S_running); _status = S_finished; notify; unlock
RootFinished ==
  /\ wpc = "w_finishing"
  /\ IF status = S_running
       THEN /\ status' = S_finished
            /\ waiting' \in Notify(waiting)
            /\ wpc' = "w_unref"
       ELSE /\ wpc' = "returned_1"
            /\ UNCHANGED <<status, waiting>>
  /\ mutex' = NoOwner
  /\ UNCHANGED <<joinable, thread, thread_id, refs, calls, ret,
                 created, main_calls, registry>>

\* root_func() that returns without dropping the reference taken by start()
RootUnref_NoRelease ==
  /\ wpc = "w_unref"
  /\ wpc' = "returned_0"
  /\ UNCHANGED <<lifecycle, sync, refs, calls, ret, created, main_calls,
                 registry>>

\* unref_delete(self->_parent_obj); return 0
RootUnref ==
  /\ wpc = "w_unref"
  /\ ref_count' = Unref(ref_count)
  /\ deleted' = deleted + DeletedBy(ref_count)
  /\ wpc' = "returned_0"
  /\ UNCHANGED <<lifecycle, sync, holds, calls, ret, created, main_calls,
                 registry>>

\* ---------------------------------------------------- setup_main_thread()

\* _status = S_running, written without taking the mutex
SetupMainThread(c) ==
  /\ pc[c] = "idle" /\ holds[c]
  /\ status' = S_running
  /\ UNCHANGED <<joinable, thread, thread_id, sync, refs, calls,
                 ret, work, registry>>

\* ------------------------------------------------------------ the registry

\* init_current_thread() that takes every unbound thread for the main thread
InitCurrentThread_AlwaysMain(n) == MainThread

\* init_current_thread(): the value it returns for native thread n
InitCurrentThread(n) ==
  IF ~main_thread_known THEN MainThread ELSE current[n]

\* get_current_thread() whose lazy path does not store the slot
GetCurrentThread_NoStore(n) ==
  /\ IF current[n] # Null
       THEN /\ ret' = Returns(n, current[n])
            /\ UNCHANGED registry
       ELSE /\ ret' = Returns(n, InitCurrentThread(n))
            /\ main_thread_known' = TRUE
            /\ UNCHANGED current
  /\ UNCHANGED <<lifecycle, sync, refs, calls, work>>

\* get_current_thread() called on native thread n
GetCurrentThread(n) ==
  /\ IF current[n] # Null
       THEN /\ ret' = Returns(n, current[n])
            /\ UNCHANGED registry
       ELSE /\ ret' = Returns(n, InitCurrentThread(n))
            /\ current' = [current EXCEPT ![n] = InitCurrentThread(n)]
            /\ main_thread_known' = TRUE
  /\ UNCHANGED <<lifecycle, sync, refs, calls, work>>

\* get_current_thread() called by a caller context between two calls
CallerGetCurrentThread(c) ==
  /\ pc[c] = "idle"
  /\ GetCurrentThread(c)

\* get_current_thread() called by the user work of the worker
WorkerGetCurrentThread ==
  /\ wpc = "w_user"
  /\ GetCurrentThread(Worker)

\* bind_thread() that sets the flag for every binding of the main thread
BindThread_FlagOnAnyMain(n, t) ==
  /\ main_thread_known' =
       IF t = MainThread THEN TRUE ELSE main_thread_known
  /\ current' = [current EXCEPT ![n] = t]
  /\ UNCHANGED <<lifecycle, sync, refs, calls, ret, work>>

\* bind_thread(t) called on native thread n
BindThread(n, t) ==
  /\ main_thread_known' =
       IF current[n] = Null /\ t = MainThread THEN TRUE ELSE main_thread_known
  /\ current' = [current EXCEPT ![n] = t]
  /\ UNCHANGED <<lifecycle, sync, refs, calls, ret, work>>

\* bind_thread(t) called by a caller context between two calls
CallerBindThread(c, t) ==
  /\ pc[c] = "idle"
  /\ BindThread(c, t)

\* ------------------------------------------------------------------ Next

\* start(), one step of it, by any caller context
StartStep ==
  \/ \E c \in Callers, p \in ThreadPriority, j \in BOOLEAN : StartLock(c, p, j)
  \/ \E c \in Callers : StartCheck(c)
  \/ \E c \in Callers, ok \in BOOLEAN : StartCreate(c, ok)
  \/ \E c \in Callers : StartFinish(c)

\* join(), one step of it, by any caller context
JoinStep ==
  \/ \E c \in Callers : JoinLock(c)
  \/ \E c \in Callers : JoinCheck(c)
  \/ \E c \in Callers : JoinLoop(c)
  \/ \E c \in Callers : JoinWake(c)
  \/ \E c \in Callers : SpuriousWake(c)

\* root_func(), one step of it, by the worker
RootStep ==
  \/ RootBind
  \/ RootLock1
  \/ RootRunning
  \/ ThreadMainBegin
  \/ WorkerGetCurrentThread
  \/ ThreadMainReturn
  \/ RootLock2
  \/ RootFinished
  \/ RootUnref

\* the registry used by the caller contexts
RegistryStep ==
  \/ \E c \in Callers : CallerGetCurrentThread(c)
  \/ \E c \in Callers, t \in Threads : CallerBindThread(c, t)

\* The lifecycle of a thread object that is started through start().
Next ==
  \/ StartStep
  \/ JoinStep
  \/ \E c \in Callers : DropRef(c)
  \/ RootStep

Spec == Init /\ [][Next]_vars

\* The same with setup_main_thread(), which the code does not guard.
NextMain ==
  \/ Next
  \/ \E c \in Callers : SetupMainThread(c)

SpecMain == Init /\ [][NextMain]_vars

\* The registry under every interleaving of its users with a started worker.
NextRegistry ==
  \/ RegistryStep
  \/ StartStep
  \/ RootStep

SpecRegistry == Init /\ [][NextRegistry]_vars

\* a step of the context that holds the mutex inside start() or join()
HolderStep ==
  \E c \in Callers :
    \/ StartCheck(c)
    \/ \E ok \in BOOLEAN : StartCreate(c, ok)
    \/ StartFinish(c)
    \/ JoinCheck(c)
    \/ JoinLoop(c)

\* a step of the worker that does not wait for the mutex
RootRunStep ==
  \/ RootBind
  \/ RootRunning
  \/ ThreadMainBegin
  \/ ThreadMainReturn
  \/ RootFinished
  \/ RootUnref

\* the worker takes the mutex
RootLockStep == RootLock1 \/ RootLock2

\* Fair scheduling: the context that holds the mutex and the worker keep
\* being scheduled (at most one step of each is enabled at a time), and a
\* context that waits for the mutex gets it when it is released often enough.
\* Nothing obliges a caller to begin a call, and no wake-up of _cv.wait() is
\* owed to a context that was not notified.
Fairness ==
  /\ WF_vars(HolderStep)
  /\ WF_vars(RootRunStep)
  /\ SF_vars(RootLockStep)
  /\ \A c \in Callers : SF_vars(JoinWake(c))

FairSpec == Spec /\ Fairness

TypeOK ==
  /\ status \in {S_new, S_start_called, S_running, S_finished}
  /\ joinable \in BOOLEAN
  /\ thread \in {0, 1} /\ thread_id \in {0, 1}
  /\ mutex \in Natives \cup {NoOwner}
  /\ waiting \subseteq Callers
  /\ ref_count \in 0..(NumCallers + 1)
  /\ deleted \in 0..1
  /\ current \in [Natives -> Threads \cup {Null}]
  /\ main_thread_known \in BOOLEAN

\* ---------------------------------------------------------------- claims

\* C1: no join() that passed its precondition returns before the thread is
\* finished: whenever the call that returned last is a join() that left its
\* wait loop, the status is S_finished.
C1_JoinReturnsOnlyWhenFinished ==
  ret.val = "joined" => status = S_finished

\* Two contexts were in join() together while the worker ran; one of them has
\* returned and the other one is still inside its join().
C1_Witness ==
  /\ ret.val = "joined"
  /\ wpc = "returned_0"
  /\ \E d \in Callers : d # ret.who /\ pc[d] \in {"j_wait", "j_loop"}

\* C2: when the worker makes the Running to Finished transition every context
\* that is blocked in join() is released: under fair scheduling each of them
\* eventually leaves its wait and returns.
C2_AllBlockedJoinersReleased ==
  \A c \in Callers :
    (pc[c] = "j_wait" /\ status = S_finished) ~> (ret = Returns(c, "joined"))

\* C3: a start() made in state S_new passes the precondition and, when the OS
\* creates the thread, returns true; under fair scheduling the status then
\* becomes S_finished, and a join() issued on the finished joinable thread
\* returns.
C3_StartRunsToFinished ==
  /\ [][\A c \in Callers :
          /\ (pc[c] = "s_check" /\ status = S_new /\ pc'[c] # "s_check")
               => pc'[c] = "s_create"
          /\ (pc[c] = "s_created" /\ thread # 0 /\ pc'[c] # "s_created")
               => ret' = Returns(c, "true")]_vars
  /\ (created = 1) ~> (status = S_finished)
  /\ \A c \in Callers :
       (pc[c] = "j_check" /\ joinable /\ status = S_finished)
         ~> (ret = Returns(c, "joined"))

\* The thread was created, has finished, and a join() issued on the finished
\* thread has returned.
C3_Witness ==
  /\ created = 1
  /\ status = S_finished
  /\ wpc = "returned_0"
  /\ ret.val = "joined"
  /\ waiting = {}

\* C4: a start() whose precondition fails returns false with the mutex
\* released and leaves the status, the joinable flag, the handle, the thread
\* id, the reference count and the number of OS threads as they were; the
\* worker that runs meanwhile still reaches S_finished.
C4_SecondStartRefused ==
  /\ [][\A c \in Callers :
          (pc[c] = "s_check" /\ ~(status = S_new /\ thread = 0)
             /\ pc'[c] # "s_check")
            => /\ ret' = Returns(c, "false")
               /\ pc'[c] = "idle"
               /\ mutex' = NoOwner
               /\ UNCHANGED <<status, joinable, thread, thread_id, ref_count,
                              deleted, created, wpc>>]_vars
  /\ \A c \in Callers :
       (pc[c] = "s_check" /\ created = 1) ~> (status = S_finished)

\* A second start() was refused while the worker existed, and the worker has
\* finished.
C4_Witness ==
  /\ created = 1
  /\ status = S_finished
  /\ ret.val = "false"

\* the position of a status in the order New, StartCalled, Running, Finished
Rank(s) ==
  CASE s = S_new -> 0
    [] s = S_start_called -> 1
    [] s = S_running -> 2
    [] s = S_finished -> 3

\* the number of caller contexts that still own their reference
Holders == Cardinality({c \in Callers : holds[c]})

\* the reference start() took is outstanding: 1 from the ref() of start() until
\* the unref_delete of its failure path or of root_func
Extra ==
  IF (\E c \in Callers : pc[c] = "s_created")
       \/ (created = 1 /\ wpc # "returned_0")
    THEN 1 ELSE 0

\* CreateThread has failed: the status was advanced and no handle was stored
CreationFailed ==
  /\ status = S_start_called
  /\ thread = 0
  /\ \A c \in Callers : pc[c] # "s_create"

\* C5 as stated, with setup_main_thread among the operations: the status never
\* goes back, becomes S_running only from S_start_called, and never changes
\* once S_finished.
C5_ForwardOnlyAllOperations ==
  [][/\ Rank(status') >= Rank(status)
     /\ (status' = S_running /\ status # S_running) => status = S_start_called
     /\ status = S_finished => status' = S_finished]_vars

\* C5 amended: every step of start(), join() and root_func() leaves the status
\* unchanged or moves it to the next one of New, StartCalled, Running,
\* Finished, so none of them changes it once it is S_finished; only a
\* setup_main_thread() step is outside this order.
C5_ForwardOnlyExceptSetupMainThread ==
  [][\/ \E c \in Callers : SetupMainThread(c)
     \/ status' = status
     \/ Rank(status') = Rank(status) + 1]_vars

\* The whole chain New, StartCalled, Running, Finished was walked by start()
\* and the worker.
C5_Witness ==
  /\ status = S_finished
  /\ wpc = "returned_0"
  /\ main_calls = 1

\* C6: when CreateThread fails, start() returns false with the mutex released
\* and the reference it took given back, so that the count is again the
\* number of references the callers own; no worker exists, thread_main() is
\* never run, and the status stays S_start_called from then on.
C6_FailedCreation ==
  /\ []((CreationFailed /\ \A c \in Callers : pc[c] # "s_created")
          => (ref_count = Holders /\ wpc = "none" /\ main_calls = 0
                /\ created = 0 /\ thread_id = 0))
  /\ [][\A c \in Callers :
          (pc[c] = "s_created" /\ thread_id = 0 /\ pc'[c] # "s_created")
            => /\ ret' = Returns(c, "false")
               /\ ref_count' = ref_count - 1
               /\ mutex' = NoOwner]_vars
  /\ [][CreationFailed => (CreationFailed' /\ wpc' = "none")]_vars

\* A start() whose CreateThread failed has returned false.
C6_Witness ==
  /\ CreationFailed
  /\ \A c \in Callers : pc[c] = "idle"
  /\ ret.val = "false"
  /\ ref_count = NumCallers

\* C7: after a start() that failed in CreateThread, the next start() on the
\* object passes the precondition check and goes on to create the thread.
C7_RetryAccepted ==
  [][\A c \in Callers :
       (pc[c] = "s_check" /\ CreationFailed /\ pc'[c] # "s_check")
         => pc'[c] = "s_create"]_vars

\* C8: the reference start() took is outstanding exactly until the launcher
\* drops it, which it does only in state S_finished; the parent object is
\* deleted at most once, exactly when the count is zero, and, once an OS
\* thread was created, only in state S_finished; when a thread was created and
\* all callers have dropped their references it is eventually deleted.
C8_ReferenceRoundTrip ==
  /\ [](ref_count = Holders + Extra)
  /\ [](deleted <= 1 /\ (deleted = 1 <=> ref_count = 0))
  /\ []((deleted = 1 /\ created = 1) => status = S_finished)
  /\ [][(wpc = "w_unref" /\ wpc' # wpc)
          => (status = S_finished /\ ref_count' = ref_count - 1)]_vars
  /\ (created = 1 /\ \A c \in Callers : ~holds[c]) ~> (deleted = 1)

\* The worker finished while a context was joining, every reference was
\* dropped and the parent object was deleted.
C8_Witness ==
  /\ deleted = 1
  /\ created = 1
  /\ ret.val = "joined"

\* C9: get_current_thread() on a native thread whose slot is empty while the
\* flag is unset returns the main thread, sets the flag and binds the slot to
\* the main thread; a slot bound to the main thread is not changed by any step
\* other than a bind_thread() of its own thread, and every get_current_thread()
\* on it returns the main thread.
C9_MainThreadBootstrap ==
  [][\A c \in Callers :
       /\ (CallerGetCurrentThread(c) /\ current[c] = Null
             /\ ~main_thread_known)
            => /\ ret' = Returns(c, MainThread)
               /\ current'[c] = MainThread
               /\ main_thread_known'
       /\ (CallerGetCurrentThread(c) /\ current[c] = MainThread)
            => /\ ret' = Returns(c, MainThread)
               /\ current'[c] = MainThread
       /\ (current[c] = MainThread
             /\ ~(\E t \in Threads : CallerBindThread(c, t)))
            => current'[c] = MainThread]_vars

\* A context was resolved as the main thread and got it back from
\* get_current_thread() while the worker and another context are bound to the
\* parent object.
C9_Witness ==
  /\ ret.val = MainThread
  /\ current[ret.who] = MainThread
  /\ main_thread_known
  /\ current[Worker] = ParentObj
  /\ \E d \in Callers : d # ret.who /\ current[d] = ParentObj

\* C10: get_current_thread() on a native thread whose slot is empty while the
\* flag is set returns no thread (nullptr), leaves the slot empty and the flag
\* set; nullptr is returned only when the flag is set.
C10_UnregisteredThread ==
  /\ [](ret.val = Null => main_thread_known)
  /\ [][\A c \in Callers :
          (CallerGetCurrentThread(c) /\ current[c] = Null
             /\ main_thread_known)
            => /\ ret' = Returns(c, Null)
               /\ current'[c] = Null
               /\ main_thread_known']_vars

\* A context with an empty slot was refused after another context had been
\* resolved as the main thread.
C10_Witness ==
  /\ ret.val = Null
  /\ current[ret.who] = Null
  /\ main_thread_known
  /\ \E d \in Callers : d # ret.who /\ current[d] = MainThread

\* C11: from the moment root_func has bound the slot, that is before the
\* first critical section and so before thread_main(), the slot of the worker
\* holds the parent object; every get_current_thread() of the worker returns
\* the parent object and leaves the registry as it is, and no other thread's
\* step changes the worker's slot.
C11_WorkerKnowsItself ==
  /\ [](wpc \notin {"none", "w_bind"} => current[Worker] = ParentObj)
  /\ [](ret.who = Worker => ret.val = ParentObj)
  /\ [][WorkerGetCurrentThread
          => (ret' = Returns(Worker, ParentObj) /\ UNCHANGED registry)]_vars
  /\ [][current[Worker] = ParentObj => current'[Worker] = ParentObj]_vars

\* The worker asked for its identity inside thread_main() after another
\* context had been resolved as the main thread.
C11_Witness ==
  /\ ret = Returns(Worker, ParentObj)
  /\ wpc = "w_user"
  /\ main_thread_known
  /\ \E c \in Callers : current[c] = MainThread

\* C12: at most one OS thread is ever created and thread_main() is entered at
\* most once, only by a created thread; a start() returns true exactly when
\* it created the thread, a start() that returns false creates none, and the
\* created thread eventually enters thread_main().
C12_ThreadMainOncePerStart ==
  /\ [](created <= 1 /\ main_calls <= created)
  /\ [](ret.val = "true" => created = 1)
  /\ [][\A c \in Callers :
          (pc[c] \in {"s_check", "s_created"} /\ pc'[c] = "idle")
            => /\ (ret' = Returns(c, "true")) <=> (pc[c] = "s_created" /\ thread # 0)
               /\ (ret' = Returns(c, "false")) <=> ~(pc[c] = "s_created" /\ thread # 0)
               /\ created' = created
               /\ main_calls' = main_calls]_vars
  /\ [][created' # created => (created = 0 /\ main_calls = 0)]_vars
  /\ (created = 1) ~> (main_calls = 1)

\* start() has returned true and the thread it created is inside thread_main().
C12_Witness ==
  /\ ret.val = "true"
  /\ created = 1
  /\ main_calls = 1
  /\ wpc = "w_user"

\* C13: while thread_main() runs the status is S_running; the status is
\* S_finished only when thread_main() was entered and has returned; the
\* launcher drops the reference in state S_finished, without the mutex; once
\* it has dropped it no step of the launcher is possible any more.
C13_LauncherOrder ==
  /\ [](wpc = "w_user" => status = S_running)
  /\ [](main_calls = 1 => status \in {S_running, S_finished})
  /\ [](status = S_finished
          => (main_calls = 1 /\ wpc \in {"w_unref", "returned_0"}))
  /\ [][wpc' = "returned_0" /\ wpc # "returned_0"
          => (status = S_finished /\ mutex # Worker /\ wpc = "w_unref"
                /\ ref_count' = ref_count - 1)]_vars
  /\ [](wpc = "returned_0" => ~ENABLED RootStep)

\* The launcher has dropped the last reference after the Finished transition.
C13_Witness ==
  /\ wpc = "returned_0"
  /\ status = S_finished
  /\ deleted = 1
  /\ mutex = NoOwner

\* C14: a join() that finds a joinable thread already S_finished never goes
\* to sleep on the condition variable: it passes the precondition and returns
\* from the loop with its next two steps.
C14_JoinAfterFinished ==
  [][\A c \in Callers :
       (status = S_finished /\ joinable /\ pc[c] \in {"j_check", "j_loop"})
         => /\ pc'[c] # "j_wait"
            /\ c \notin waiting'
            /\ (pc[c] = "j_check" /\ pc'[c] # "j_check") => pc'[c] = "j_loop"
            /\ (pc[c] = "j_loop" /\ pc'[c] # "j_loop")
                 => (ret' = Returns(c, "joined") /\ mutex' = NoOwner)]_vars

\* A join() was issued after the worker had finished and left; nobody sleeps.
C14_Witness ==
  /\ \E c \in Callers : pc[c] = "j_check"
  /\ status = S_finished
  /\ joinable
  /\ wpc = "returned_0"
  /\ waiting = {}

\* C15: a join() on a thread that is not joinable or still S_new returns at
\* once: it does not sleep, it releases the mutex, and it leaves the status,
\* the joinable flag, the handle and the reference count as they were.
C15_JoinRefused ==
  [][\A c \in Callers :
       (pc[c] = "j_check" /\ ~(joinable /\ status # S_new)
          /\ pc'[c] # "j_check")
         => /\ pc'[c] = "idle"
            /\ ret' = Returns(c, "join_refused")
            /\ mutex' = NoOwner
            /\ c \notin waiting'
            /\ UNCHANGED <<status, joinable, thread, thread_id, ref_count,
                           deleted, waiting>>]_vars

\* A join() on a running thread that was started as not joinable was refused.
C15_Witness ==
  /\ ret.val = "join_refused"
  /\ status = S_running
  /\ ~joinable
  /\ mutex = NoOwner

\* C16: bind_thread(t) sets the slot of the calling thread to t and leaves
\* every other slot alone; after it the flag is set exactly when it was set
\* before or the slot was empty and t is the main thread; no step at all
\* resets the flag.
C16_BindThreadEffect ==
  /\ [][\A c \in Callers, t \in Threads :
          CallerBindThread(c, t)
            => /\ current'[c] = t
               /\ \A n \in Natives \ {c} : current'[n] = current[n]
               /\ main_thread_known'
                    <=> (main_thread_known
                           \/ (current[c] = Null /\ t = MainThread))]_vars
  /\ [][main_thread_known => main_thread_known']_vars

\* A context bound to the parent object was rebound to the main thread: the
\* slot was overwritten and the flag stayed unset.
C16_Witness ==
  /\ ~main_thread_known
  /\ \E c \in Callers : current[c] = MainThread

\* C17: every step that writes or reads the status, in start(), in
\* setup_main_thread(), in join() and in root_func(), is taken by the context
\* that holds the mutex.
C17_StatusOnlyUnderMutex ==
  [][/\ \A c \in Callers :
          (StartCheck(c) \/ SetupMainThread(c) \/ JoinCheck(c) \/ JoinLoop(c))
            => mutex = c
     /\ (RootRunning \/ RootFinished) => mutex = Worker]_vars

\* C18: the worker is not past its first lock while a start() still holds the
\* mutex it took before CreateThread; it sees S_start_called in its first
\* critical section and S_running in its second one, so it never takes an
\* early return.
C18_LauncherAssertionsHold ==
  /\ []((\E c \in Callers : pc[c] = "s_created")
          => wpc \in {"none", "w_bind", "w_lock1"})
  /\ [](wpc = "w_running" => status = S_start_called)
  /\ [](wpc = "w_finishing" => status = S_running)
  /\ [](wpc # "returned_1")

\* The worker went through both critical sections while a further start() was
\* refused and a context was joining.
C18_Witness ==
  /\ wpc = "returned_0"
  /\ ret.val = "false"
  /\ \E c \in Callers : pc[c] = "j_wait"

\* C19: the mutex is held exactly by the context that is between the lock and
\* the unlock of start(), of join() or of a critical section of root_func; a
\* context outside a call, and a context that waits in join(), does not hold
\* it.
C19_MutexReleasedOnExit ==
  /\ \A c \in Callers :
       (mutex = c)
         <=> pc[c] \in {"s_check", "s_create", "s_created", "j_check", "j_loop"}
  /\ (mutex = Worker) <=> wpc \in {"w_running", "w_finishing"}
  /\ \A c \in waiting : pc[c] = "j_wait"

\* A context sleeps in join() and another one has been refused by start();
\* the worker is between its critical sections and the mutex is free.
C19_Witness ==
  /\ mutex = NoOwner
  /\ ret.val = "false"
  /\ wpc = "w_user"
  /\ \E c \in Callers : c \in waiting

\* C20: after a joinable start() failed in CreateThread a join() passes the
\* precondition check, goes to sleep on the condition variable and never
\* returns: the status stays S_start_called and no worker exists.
C20_JoinAfterFailedStartHangs ==
  /\ [][\A c \in Callers :
          (CreationFailed /\ joinable
             /\ pc[c] \in {"j_check", "j_loop", "j_wait"})
            => /\ pc'[c] \in {"j_check", "j_loop", "j_wait"}
               /\ ret' \notin {Returns(c, "joined"), Returns(c, "join_refused")}
               /\ status' = S_start_called
               /\ wpc' = "none"]_vars
  /\ \A c \in Callers :
       (CreationFailed /\ joinable /\ pc[c] = "j_check")
         ~> (pc[c] = "j_wait" /\ c \in waiting)

\* A context sleeps in join() on an object whose joinable start() failed.
C20_Witness ==
  /\ CreationFailed
  /\ joinable
  /\ wpc = "none"
  /\ \E c \in Callers : pc[c] = "j_wait" /\ c \in waiting
====
